---- MODULE Spec2Model ----
(***************************************************************************)
(* Model of src/app.py: the prefecture coordinate table and its loader     *)
(* (load_prefecture_coords), the request handler (index) run by several    *)
(* request threads, and the forecast pipeline (get_weather_data).          *)
(*                                                                         *)
(* Numbers are integers: coordinates in millidegrees, precipitation in     *)
(* hundredths of a millimetre before rounding and tenths after, durations  *)
(* in seconds before conversion and tenths of an hour after.  The sunshine *)
(* ratio is kept as an exact fraction.                                     *)
(***************************************************************************)
EXTENDS Integers, Sequences, FiniteSets, TLC

\* ------------------------------------------------------------------ bounds
MaxRows == 2        \* longest coordinate source (rows of pref.csv)
NThreads == 2       \* request threads of the server
MaxDays == 2        \* longest forecast (days in a series)
MaxEnd == 3         \* latest end of the provider's date axis

\* ------------------------------------------------------------ CSV source
\* A coordinate cell of pref.csv.  "num": a number; "deg": a number followed
\* by the degree marker; "empty": an empty cell; "text": any other text.
Num(v) == [kind |-> "num", v |-> v]
Deg(v) == [kind |-> "deg", v |-> v]
EmptyCell == [kind |-> "empty", v |-> 0]
TextCell == [kind |-> "text", v |-> 0]

\* Rows of pref.csv.  An empty cell of a text column is "".
RowKinds ==
  { [pref |-> "Hokkaido", cap |-> "Sapporo-shi", region |-> "Hokkaido",
     lat |-> Num(43064), lon |-> Num(141347)],
    [pref |-> "Tokyo-to", cap |-> "Tokyo", region |-> "",
     lat |-> Deg(35689), lon |-> Deg(139692)],
    [pref |-> "", cap |-> "Osaka-shi", region |-> "Kinki",
     lat |-> Num(34686), lon |-> Num(135520)],
    [pref |-> "Kyoto-fu", cap |-> "", region |-> "Kinki",
     lat |-> Num(35021), lon |-> Num(135756)],
    [pref |-> "Nara-ken", cap |-> "Nara-shi", region |-> "Kinki",
     lat |-> EmptyCell, lon |-> Num(135833)],
    [pref |-> "Aichi-ken", cap |-> "Nagoya-shi", region |-> "Chubu",
     lat |-> Num(35180), lon |-> TextCell] }

RECURSIVE SeqsUpTo(_, _)
SeqsUpTo(S, n) ==
  IF n = 0 THEN { <<>> }
  ELSE LET shorter == SeqsUpTo(S, n - 1)
       IN shorter \cup { Append(s, x) : s \in { q \in shorter : Len(q) = n - 1 }, x \in S }

\* What the loader can find at CSV_FILE_PATH: no file, a file read_csv cannot
\* read into the expected columns, or a file with rows.
Sources ==
  { [file |-> "missing", rows |-> <<>>], [file |-> "malformed", rows |-> <<>>] }
  \cup { [file |-> "ok", rows |-> r] : r \in SeqsUpTo(RowKinds, MaxRows) }

\* ---------------------------------------------------------------- loader
NaN == [nan |-> TRUE, v |-> 0]

\* str.replace(marker, '') then float(): a number with or without the marker
\* parses, an empty cell (the string "nan") parses to NaN, other text raises.
Parseable(cell) == cell.kind # "text"

ParseCoord(cell) ==
  IF cell.kind \in {"num", "deg"} THEN [nan |-> FALSE, v |-> cell.v] ELSE NaN

\* astype(float) on a whole column raises if any cell of it does.
ColumnsParse(rows) ==
  \A i \in 1..Len(rows) : Parseable(rows[i].lat) /\ Parseable(rows[i].lon)

\* read_csv and the two column conversions raise.
ParseRaises(src) == src.file = "malformed" \/ ~ColumnsParse(src.rows)

\* A variant whose subset leaves the latitude out.
CompleteButLatitude(row) ==
  /\ row.pref # ""
  /\ row.cap # ""
  /\ ~ParseCoord(row.lon).nan

\* dropna(subset = prefecture, capital, latitude, longitude)
Complete(row) ==
  /\ row.pref # ""
  /\ row.cap # ""
  /\ ~ParseCoord(row.lat).nan
  /\ ~ParseCoord(row.lon).nan

Surviving(rows) == SelectSeq(rows, Complete)

\* Display names are pairs: <<prefecture, capital>> stands for the text
\* "prefecture(capital)", and the two hand-mapped names are pairs of their own.
DisplayName(row) ==
  IF row.pref = "Tokyo-to" THEN <<"Tokyo-tocho", "Shinjuku-ku">>
  ELSE IF row.pref = "Hokkaido" THEN <<"Hokkaido-cho", "Sapporo-shi">>
  ELSE <<row.pref, row.cap>>

RegionName(row) == IF row.region # "" THEN row.region ELSE "other"

Entry(row) ==
  [display_name |-> DisplayName(row),
   latitude |-> ParseCoord(row.lat).v,
   longitude |-> ParseCoord(row.lon).v,
   region |-> RegionName(row)]

DEFAULT_KEY == <<"load-error", "using Tokyo">>

FallbackMissing ==
  [display_name |-> DEFAULT_KEY, latitude |-> 35689, longitude |-> 139692,
   region |-> "Kanto"]

\* A variant whose longitude is the latitude's value.
FallbackErrorLatitudeTwice ==
  [display_name |-> DEFAULT_KEY, latitude |-> 35689, longitude |-> 35689,
   region |-> "error"]

FallbackError ==
  [display_name |-> DEFAULT_KEY, latitude |-> 35689, longitude |-> 139692,
   region |-> "error"]

RECURSIVE MapEntries(_)
MapEntries(rows) ==
  IF rows = <<>> THEN <<>> ELSE <<Entry(Head(rows))>> \o MapEntries(Tail(rows))

\* load_prefecture_coords run from its first line to its return with no other
\* thread touching the table.
LoadResult(src) ==
  IF src.file = "missing" THEN <<FallbackMissing>>
  ELSE IF ParseRaises(src) THEN <<FallbackError>>
  ELSE MapEntries(Surviving(src.rows))

\* ------------------------------------------------------------------ state
VARIABLES
  csv,            \* what is at CSV_FILE_PATH
  table,          \* PREFECTURE_DATA_LIST
  pc,             \* where each thread is (0: the main thread, 1..: request threads)
  li,             \* loader: index of the next row of df.iterrows()
  meth,           \* request.method
  form_key,       \* request.form.get('prefecture_select')
  default_data,   \* index: default_data
  location_key,   \* index: location_key
  sorted_list,    \* index: sorted_list
  selected_data,  \* index: selected_data
  status,         \* index: how the request ended
  resp,           \* get_weather_data: the provider's response
  out             \* get_weather_data: what the call produced

vars == <<csv, table, pc, li, meth, form_key, default_data,
          location_key, sorted_list, selected_data, status, resp, out>>

Threads == 1..NThreads
Procs == {0} \cup Threads

NoKey == <<>>
NoEntry == [display_name |-> NoKey, latitude |-> 0, longitude |-> 0, region |-> ""]

\* The keys a form can post: names of entries, a name no entry has, or none.
FormKeys ==
  { <<"Hokkaido-cho", "Sapporo-shi">>, <<"Atlantis", "Poseidonis">>, NoKey }

LoadPcs == {"load_reset", "load_missing", "load_except", "load_loop"}
LoaderActive == \E p \in Procs : pc[p] \in LoadPcs

\* ------------------------------------------------------- index's helpers
Names(tbl) == { tbl[i].display_name : i \in 1..Len(tbl) }

\* The latitude-descending order of sorted(..., reverse=True): stable, equal
\* latitudes keep their order.
RECURSIVE InsertDesc(_, _)
InsertDesc(e, s) ==
  IF s = <<>> THEN <<e>>
  ELSE IF Head(s).latitude >= e.latitude THEN <<Head(s)>> \o InsertDesc(e, Tail(s))
  ELSE <<e>> \o s

RECURSIVE SortDesc(_)
SortDesc(s) ==
  IF s = <<>> THEN <<>>
  ELSE InsertDesc(s[Len(s)], SortDesc(SubSeq(s, 1, Len(s) - 1)))

\* A variant that takes the default from the sorted list.
DefaultEntryOfSorted(tbl) == Head(SortDesc(tbl))

\* PREFECTURE_DATA_LIST[0]
DefaultEntry(tbl) == Head(tbl)

\* A variant that sorts the list in place, as list.sort() does.
TableSortedInPlace(tbl) == SortDesc(tbl)

\* sorted() builds a new list: the list it is given is left as it was.
TableAfterSorted(tbl) == tbl

\* location_key after the POST branch: the posted key if it names an entry,
\* else the default entry's name.
PostedKey(k, tbl, dflt) == IF k \in Names(tbl) THEN k ELSE dflt.display_name

\* next((item for item in list if item['display_name'] == key), default)
RECURSIVE Lookup(_, _, _)
Lookup(tbl, k, dflt) ==
  IF tbl = <<>> THEN dflt
  ELSE IF Head(tbl).display_name = k THEN Head(tbl)
  ELSE Lookup(Tail(tbl), k, dflt)

\* ----------------------------------------------------------------- loader
\* Where a thread goes when load_prefecture_coords returns: the main thread to
\* the check of line 315, a request thread to the check of line 265.
AfterLoad(p, tbl) ==
  IF p = 0 THEN (IF tbl # <<>> THEN "serving" ELSE "fatal") ELSE "check2"

\* Line 21, then the branch the source decides (no other access to the table
\* before the first append or the return).
LoadReset(p) ==
  /\ pc[p] = "load_reset"
  /\ table' = <<>>
  /\ IF csv.file = "missing" THEN
       /\ pc' = [pc EXCEPT ![p] = "load_missing"]
       /\ li' = li
     ELSE IF ParseRaises(csv) THEN
       /\ pc' = [pc EXCEPT ![p] = "load_except"]
       /\ li' = li
     ELSE IF Surviving(csv.rows) = <<>> THEN
       /\ pc' = [pc EXCEPT ![p] = AfterLoad(p, <<>>)]
       /\ li' = li
     ELSE
       /\ pc' = [pc EXCEPT ![p] = "load_loop"]
       /\ li' = [li EXCEPT ![p] = 1]
  /\ UNCHANGED <<csv, meth, form_key, default_data, location_key,
                 sorted_list, selected_data, status, resp, out>>

\* Lines 29-35: the file is missing.
LoadMissing(p) ==
  /\ pc[p] = "load_missing"
  /\ table' = Append(table, FallbackMissing)
  /\ pc' = [pc EXCEPT ![p] = AfterLoad(p, table')]
  /\ UNCHANGED <<csv, li, meth, form_key, default_data, location_key,
                 sorted_list, selected_data, status, resp, out>>

\* Lines 71-78: the except branch rebinds the table.
LoadExcept(p) ==
  /\ pc[p] = "load_except"
  /\ table' = <<FallbackError>>
  /\ pc' = [pc EXCEPT ![p] = AfterLoad(p, table')]
  /\ UNCHANGED <<csv, li, meth, form_key, default_data, location_key,
                 sorted_list, selected_data, status, resp, out>>

\* Lines 48-67: one row of the loop appended to the table.
LoadRow(p) ==
  /\ pc[p] = "load_loop"
  /\ table' = Append(table, Entry(Surviving(csv.rows)[li[p]]))
  /\ IF li[p] < Len(Surviving(csv.rows)) THEN
       /\ li' = [li EXCEPT ![p] = li[p] + 1]
       /\ pc' = pc
     ELSE
       /\ li' = [li EXCEPT ![p] = 0]
       /\ pc' = [pc EXCEPT ![p] = AfterLoad(p, table')]
  /\ UNCHANGED <<csv, meth, form_key, default_data, location_key,
                 sorted_list, selected_data, status, resp, out>>

\* ------------------------------------------------------------------ index
Serving == pc[0] \in {"serving", "imported"}

\* A request arrives; line 262.
Arrive(t) ==
  /\ Serving
  /\ pc[t] = "idle"
  /\ pc' = [pc EXCEPT ![t] = IF table = <<>> THEN "load_reset" ELSE "check2"]
  /\ UNCHANGED <<csv, table, li, meth, form_key, default_data, location_key,
                 sorted_list, selected_data, status, resp, out>>

\* Lines 265-266.
Check2(t) ==
  /\ pc[t] = "check2"
  /\ IF table = <<>> THEN
       /\ status' = [status EXCEPT ![t] = "no_table"]
       /\ pc' = [pc EXCEPT ![t] = "respond"]
     ELSE
       /\ status' = status
       /\ pc' = [pc EXCEPT ![t] = "resolve"]
  /\ UNCHANGED <<csv, table, li, meth, form_key, default_data,
                 location_key, sorted_list, selected_data, resp, out>>

\* Lines 269-294: the default entry, the sorted list, the posted key and the
\* selected entry, all read from the table as it is now.  Indexing an empty
\* list (line 269) raises.  The request's method and key are read here first.
Resolve(t) ==
  /\ pc[t] = "resolve"
  /\ IF table = <<>> THEN
       /\ status' = [status EXCEPT ![t] = "index_error"]
       /\ pc' = [pc EXCEPT ![t] = "respond"]
       /\ UNCHANGED <<table, meth, form_key, default_data, location_key,
                      sorted_list, selected_data>>
     ELSE
       \E m \in {"GET", "POST"} : \E k \in FormKeys :
         LET dflt == DefaultEntry(table)
             key == IF m = "POST" THEN PostedKey(k, table, dflt)
                    ELSE dflt.display_name
         IN /\ (m = "GET" => k = NoKey)
            /\ meth' = [meth EXCEPT ![t] = m]
            /\ form_key' = [form_key EXCEPT ![t] = k]
            /\ default_data' = [default_data EXCEPT ![t] = dflt]
            /\ sorted_list' = [sorted_list EXCEPT ![t] = SortDesc(table)]
            /\ table' = TableAfterSorted(table)
            /\ location_key' = [location_key EXCEPT ![t] = key]
            /\ selected_data' = [selected_data EXCEPT ![t] = Lookup(table, key, dflt)]
            /\ pc' = [pc EXCEPT ![t] = "fetch"]
            /\ status' = status
  /\ UNCHANGED <<csv, li, resp, out>>

\* Lines 297-308: the forecast is fetched and the page rendered from the
\* selected entry and the sorted list, or the fetch raises and the request
\* fails; either way the request's locals are gone.
Fetch(t) ==
  /\ pc[t] = "fetch"
  /\ \E s \in {"rendered", "fetch_error"} : status' = [status EXCEPT ![t] = s]
  /\ pc' = [pc EXCEPT ![t] = "respond"]
  /\ meth' = [meth EXCEPT ![t] = "none"]
  /\ form_key' = [form_key EXCEPT ![t] = NoKey]
  /\ default_data' = [default_data EXCEPT ![t] = NoEntry]
  /\ location_key' = [location_key EXCEPT ![t] = NoKey]
  /\ sorted_list' = [sorted_list EXCEPT ![t] = <<>>]
  /\ selected_data' = [selected_data EXCEPT ![t] = NoEntry]
  /\ UNCHANGED <<csv, table, li, resp, out>>

\* The response (the page, or a 500) leaves.
Respond(t) ==
  /\ pc[t] = "respond"
  /\ pc' = [pc EXCEPT ![t] = "idle"]
  /\ status' = [status EXCEPT ![t] = "none"]
  /\ UNCHANGED <<csv, table, li, meth, form_key, default_data, location_key,
                 sorted_list, selected_data, resp, out>>

\* ------------------------------------------------------ get_weather_data
\* params["daily"], lines 93-98: the order the variables are asked for, which
\* is the order lines 110-119 read them in.
DAILY ==
  << "temperature_2m_max", "temperature_2m_min", "rain_sum", "showers_sum",
     "daylight_duration", "sunshine_duration", "sunrise", "sunset",
     "precipitation_probability_max", "precipitation_sum" >>

DailyVars == { DAILY[i] : i \in 1..Len(DAILY) }

\* Thresholds of the classifier: precipitation in tenths of a millimetre, the
\* sunshine ratio in percent.
RainWarningTenths == 50
LowSunshinePct == 50
PartlyCloudyMaxPct == 90

\* Seconds in an hour (lines 138-139), and the offset of Asia/Tokyo (line 99).
SecondsPerHour == 3600
TzOffsetSeconds == 32400

\* numpy's round: n/d to the nearest integer, a tie to the even one.
RoundDiv(n, d) ==
  LET q == n \div d
      r == n % d
  IN IF 2 * r < d THEN q
     ELSE IF 2 * r > d THEN q + 1
     ELSE IF q % 2 = 0 THEN q ELSE q + 1

\* Hundredths rounded to 1 decimal (tenths): temperatures, precipitation.
Round1(h) == RoundDiv(h, 10)

\* Seconds to hours, rounded to 1 decimal (tenths of an hour).
HoursTenths(secs) == RoundDiv(secs * 10, SecondsPerHour)

\* Percent in hundredths rounded to an integer percent.
Round0(h) == RoundDiv(h, 100)

\* Epoch seconds to the local HH:MM: <<hour, minute>>.
LocalHHMM(epoch) ==
  LET m == ((epoch + TzOffsetSeconds) % 86400) \div 60
  IN << m \div 60, m % 60 >>

\* A variant of the range that keeps its end (inclusive = "both").
RECURSIVE DateRangeClosed(_, _, _)
DateRangeClosed(start, end, interval) ==
  IF start > end THEN <<>>
  ELSE <<start>> \o DateRangeClosed(start + interval, end, interval)

\* pd.date_range(start, end, freq = interval, inclusive = "left")
RECURSIVE DateRange(_, _, _)
DateRange(start, end, interval) ==
  IF start >= end THEN <<>>
  ELSE <<start>> \o DateRange(start + interval, end, interval)

\* A variant that guards the division with "not 0" instead of "above 0".
SunshineRatioUnlessZero(daylight, sunshine) ==
  IF daylight # 0 THEN [num |-> 100 * sunshine, den |-> daylight]
  ELSE [num |-> 0, den |-> 1]

\* Lines 173-178: 100 * sunshine / daylight as the fraction num/den, 0 when the
\* daylight is not above 0.
SunshineRatio(daylight, sunshine) ==
  IF daylight > 0 THEN [num |-> 100 * sunshine, den |-> daylight]
  ELSE [num |-> 0, den |-> 1]

RatioLt(r, k) == r.num < k * r.den
RatioLe(r, k) == r.num <= k * r.den
RatioGe(r, k) == r.num >= k * r.den

\* A variant of the light-precipitation flag that starts at 0.0 mm.
IsLightPrecipFromZero(p) == p >= 0 /\ p < RainWarningTenths

\* Lines 186-197: the flags.
IsLowSunshine(r) == RatioLt(r, LowSunshinePct)
IsPartlyCloudy(r) == RatioGe(r, LowSunshinePct) /\ RatioLe(r, PartlyCloudyMaxPct)
IsNoPrecip(p) == p = 0
IsRainWarning(p) == p >= RainWarningTenths
IsLightPrecip(p) == p > 0 /\ p < RainWarningTenths

\* Lines 183-210: the label column, written rule after rule.
Classify(p, r) ==
  LET is_occasional_rain == IsLowSunshine(r) /\ IsLightPrecip(p) /\ ~IsRainWarning(p)
      is_partly_cloudy_final == IsNoPrecip(p) /\ IsPartlyCloudy(r)
      is_cloudy == IsNoPrecip(p) /\ IsLowSunshine(r)
      l0 == "CLEAR"
      l1 == IF IsRainWarning(p) THEN "RAIN_WARNING" ELSE l0
      l2 == IF is_occasional_rain THEN "OCCASIONAL_RAIN" ELSE l1
      l3 == IF is_partly_cloudy_final /\ ~IsRainWarning(p) /\ ~is_occasional_rain
            THEN "PARTLY_CLOUDY" ELSE l2
      l4 == IF is_cloudy /\ ~IsRainWarning(p) /\ ~is_occasional_rain
               /\ ~is_partly_cloudy_final
            THEN "CLOUDY" ELSE l3
  IN l4

\* pd.DataFrame(data = daily_data), line 154: columns of different lengths raise.
SameLength(cols, n) == \A i \in 1..Len(cols) : Len(cols[i]) = n

\* The rows the frame gets from its columns.
FrameRows(cols, axis) == Len(axis)

\* get_weather_data on the provider's response r: r.order is the order the
\* provider returned the variables in, r.series the values of each.
GetWeatherData(r) ==
  LET var(i) == r.series[r.order[i]]          \* daily.Variables(i - 1)
      cols == [i \in 1..Len(DAILY) |-> var(i)]
      axis == DateRange(r.start, r.end, r.interval)
  IN IF ~SameLength(cols, Len(axis)) THEN [result |-> "error"]
     ELSE
       LET n == FrameRows(cols, axis)
           t_max == [i \in 1..n |-> Round1(var(1)[i])]
           t_min == [i \in 1..n |-> Round1(var(2)[i])]
           daylight == [i \in 1..n |-> HoursTenths(var(5)[i])]
           sunshine == [i \in 1..n |-> HoursTenths(var(6)[i])]
           precip == [i \in 1..n |-> Round1(var(10)[i])]
           ratio == [i \in 1..n |-> SunshineRatio(daylight[i], sunshine[i])]
       IN [result |-> "payload",
           from |-> [i \in 1..Len(DAILY) |-> r.order[i]],
           dates |-> axis,
           ratio |-> ratio,
           daily_table |->
             [i \in 1..n |->
                [date |-> axis[i], t_max |-> t_max[i], t_min |-> t_min[i],
                 sunrise |-> LocalHHMM(var(7)[i]), sunset |-> LocalHHMM(var(8)[i]),
                 precip_probability |-> Round0(var(9)[i]), precip |-> precip[i]]],
           custom_analysis_table |->
             [i \in 1..n |->
                [date |-> axis[i], precip |-> precip[i], daylight |-> daylight[i],
                 sunshine |-> sunshine[i], label |-> Classify(precip[i], ratio[i])]],
           chart |->
             [labels |-> axis, t_max |-> t_max, t_min |-> t_min,
              precipitation_sum |-> precip]]

\* One day of a forecast: what the provider reports for the three variables the
\* classifier reads (precipitation in hundredths of a millimetre, durations in
\* seconds).
DayKinds ==
  [precip : {0, 4, 200, 496, 600},
   sun : { <<0, 0>>, <<36000, 7200>>, <<36000, 18000>>, <<36000, 32400>>,
           <<36000, 39600>>, <<36000, -3600>>, <<-3600, 3600>>, <<170, 170>> }]

\* The values of variable v over the days ds.
SeriesOf(v, ds) ==
  [i \in 1..Len(ds) |->
     CASE v = "precipitation_sum" -> ds[i].precip
       [] v = "daylight_duration" -> ds[i].sun[1]
       [] v = "sunshine_duration" -> ds[i].sun[2]
       [] v = "temperature_2m_max" -> 2514
       [] v = "temperature_2m_min" -> 1486
       [] v = "rain_sum" -> 120
       [] v = "showers_sum" -> 80
       [] v = "sunrise" -> 1762376400 + 86400 * i
       [] v = "sunset" -> 1762414200 + 86400 * i
       [] OTHER -> 3349]

Response(order, end, interval, ds, odd, oddDays) ==
  [order |-> order, start |-> 0, end |-> end, interval |-> interval,
   series |-> [v \in DailyVars |-> SeriesOf(v, IF v = odd THEN oddDays ELSE ds)]]

Swap(s, i, j) == [s EXCEPT ![i] = s[j], ![j] = s[i]]

\* Orders a provider can answer in: the one asked for, and some with two
\* variables of the same value type exchanged.
Orders ==
  { DAILY, Swap(DAILY, 1, 2), Swap(DAILY, 3, 10), Swap(DAILY, 5, 6),
    Swap(DAILY, 7, 8) }

PlainDay == [precip |-> 200, sun |-> <<36000, 7200>>]
PlainDays(n) == [i \in 1..n |-> PlainDay]

\* Forecasts in the asked order whose series all have the axis's length.
AlignedResponses ==
  { Response(DAILY, Len(ds), 1, ds, "none", <<>>) : ds \in SeqsUpTo(DayKinds, MaxDays) }

\* Forecasts in any of the orders, with any axis, where one series may have a
\* length of its own.
AnyResponses ==
  { Response(o, e, iv, PlainDays(n), odd, PlainDays(m)) :
      o \in Orders, e \in 0..MaxEnd, iv \in {1, 2}, n \in 0..MaxDays,
      odd \in DailyVars \cup {"none"}, m \in 0..MaxDays }

NoResp == [order |-> <<>>, start |-> 0, end |-> 0, interval |-> 1]
NoOut == [result |-> "none"]

\* get_weather_data is called with a response of the provider.
Call ==
  /\ out.result = "none"
  /\ out' = GetWeatherData(resp)
  /\ UNCHANGED <<csv, table, pc, li, meth, form_key, default_data,
                 location_key, sorted_list, selected_data, status, resp>>

\* The module as loaded: the table is empty (line 13) and no request is being
\* served.
Loaded(main) ==
  /\ csv \in Sources
  /\ table = <<>>
  /\ pc = [p \in Procs |-> IF p = 0 THEN main ELSE "idle"]
  /\ li = [p \in Procs |-> 0]
  /\ meth = [t \in Threads |-> "none"]
  /\ form_key = [t \in Threads |-> NoKey]
  /\ default_data = [t \in Threads |-> NoEntry]
  /\ location_key = [t \in Threads |-> NoKey]
  /\ sorted_list = [t \in Threads |-> <<>>]
  /\ selected_data = [t \in Threads |-> NoEntry]
  /\ status = [t \in Threads |-> "none"]
  /\ resp = NoResp
  /\ out = NoOut

\* Run as a script (lines 311-319): the main thread loads the table, then
\* serves if the table is not empty.
InitMain == Loaded("load_reset")

\* Imported by a WSGI server: lines 311-319 are not run and the first requests
\* load the table (lines 262-263).
InitImported == Loaded("imported")

Init == InitMain \/ InitImported

Next ==
  \/ \E p \in Procs : LoadReset(p)
  \/ \E p \in Procs : LoadMissing(p)
  \/ \E p \in Procs : LoadExcept(p)
  \/ \E p \in Procs : LoadRow(p)
  \/ \E t \in Threads : Arrive(t)
  \/ \E t \in Threads : Check2(t)
  \/ \E t \in Threads : Resolve(t)
  \/ \E t \in Threads : Fetch(t)
  \/ \E t \in Threads : Respond(t)

Spec == Init /\ [][Next]_vars

SpecMain == InitMain /\ [][Next]_vars

\* get_weather_data alone, on every response of the bounded sets.
InitWeather ==
  /\ csv = [file |-> "missing", rows |-> <<>>]
  /\ table = <<FallbackMissing>>
  /\ pc = [p \in Procs |-> IF p = 0 THEN "serving" ELSE "fetch"]
  /\ li = [p \in Procs |-> 0]
  /\ meth = [t \in Threads |-> "GET"]
  /\ form_key = [t \in Threads |-> NoKey]
  /\ default_data = [t \in Threads |-> FallbackMissing]
  /\ location_key = [t \in Threads |-> DEFAULT_KEY]
  /\ sorted_list = [t \in Threads |-> <<FallbackMissing>>]
  /\ selected_data = [t \in Threads |-> FallbackMissing]
  /\ status = [t \in Threads |-> "none"]
  /\ resp \in AlignedResponses \cup AnyResponses
  /\ out = NoOut

NextWeather == Call

SpecWeather == InitWeather /\ [][NextWeather]_vars


\* ===================================================================== claims
Count(s, e) == Cardinality({ i \in 1..Len(s) : s[i] = e })
IsPermutation(a, b) ==
  /\ Len(a) = Len(b)
  /\ \A i \in 1..Len(a) : Count(a, a[i]) = Count(b, a[i])
IsLatitudeDescending(s) ==
  \A i \in 1..Len(s) : \A j \in 1..Len(s) : i < j => s[i].latitude >= s[j].latitude
StartupDone == pc[0] \in {"serving", "fatal"}

\* ------------------------------------------------------------------------ C1
\* The first-match priority chain of the specification.
ChainLabel(p, r) ==
  IF p >= 50 THEN "RAIN_WARNING"
  ELSE IF r.num < 50 * r.den /\ 0 < p /\ p < 50 THEN "OCCASIONAL_RAIN"
  ELSE IF p = 0 /\ 50 * r.den <= r.num /\ r.num <= 90 * r.den THEN "PARTLY_CLOUDY"
  ELSE IF p = 0 /\ r.num < 50 * r.den THEN "CLOUDY"
  ELSE "CLEAR"

Pct(n) == [num |-> n, den |-> 1]

\* C1: every day of a returned payload carries exactly one of the five labels,
\* and it is the label the first-match chain RAIN_WARNING, OCCASIONAL_RAIN,
\* PARTLY_CLOUDY, CLOUDY, CLEAR gives for that day's own precipitation and
\* sunshine ratio; scenarios A to F of the specification get their labels.
C1_LabelIsFirstMatch ==
  /\ out.result = "payload" =>
       \A i \in 1..Len(out.custom_analysis_table) :
         LET d == out.custom_analysis_table[i]
         IN /\ d.label \in {"CLEAR", "RAIN_WARNING", "OCCASIONAL_RAIN",
                            "PARTLY_CLOUDY", "CLOUDY"}
            /\ d.label = ChainLabel(d.precip, out.ratio[i])
  /\ out.result = "payload" =>
       /\ Classify(60, Pct(80)) = "RAIN_WARNING"
       /\ Classify(20, Pct(30)) = "OCCASIONAL_RAIN"
       /\ Classify(0, Pct(70)) = "PARTLY_CLOUDY"
       /\ Classify(0, Pct(20)) = "CLOUDY"
       /\ Classify(0, Pct(95)) = "CLEAR"
       /\ Classify(0, SunshineRatio(0, 0)) = "CLOUDY"

\* A two-day forecast: a day of 6.0 mm with a low sunshine ratio (rain warning,
\* though the ratio alone would say cloudy) before a dry day of low sunshine.
C1_Witness ==
  /\ out.result = "payload"
  /\ Len(out.custom_analysis_table) = 2
  /\ out.custom_analysis_table[1].precip = 60
  /\ out.ratio[1].num < 50 * out.ratio[1].den
  /\ out.custom_analysis_table[1].label = "RAIN_WARNING"
  /\ out.custom_analysis_table[2].precip = 0
  /\ out.custom_analysis_table[2].label = "CLOUDY"

\* ------------------------------------------------------------------------ C2
\* C2: once every call of the loader has returned, the table is what one single
\* load of the same source produces (or still the empty table nobody loaded):
\* no entry twice, none missing.
C2_TableIsOneLoad ==
  (pc[0] = "imported" /\ ~LoaderActive) => table \in { <<>>, LoadResult(csv) }

\* ------------------------------------------------------------------------ C3
\* C3: with the table loaded at startup, a GET, or a POST whose key is absent
\* or names no entry, passes the first entry of the table (load order) to
\* get_weather_data; a POST whose key names an entry passes an entry of that
\* name; no request ends in a selection error.
C3_UnknownKeyGetsDefault ==
  \A t \in Threads :
    /\ status[t] \notin {"no_table", "index_error"}
    /\ pc[t] = "fetch" =>
         /\ selected_data[t] # NoEntry
         /\ (meth[t] = "GET" \/ form_key[t] \notin Names(table))
              => selected_data[t] = table[1]
         /\ (meth[t] = "POST" /\ form_key[t] \in Names(table))
              => selected_data[t].display_name = form_key[t]

\* A POST of a key no entry has, on a table whose first entry is not the
\* northernmost one.
C3_Witness ==
  \E t \in Threads :
    /\ pc[t] = "fetch"
    /\ meth[t] = "POST"
    /\ form_key[t] = <<"Atlantis", "Poseidonis">>
    /\ Len(table) = 2
    /\ sorted_list[t][1] # table[1]
    /\ selected_data[t] = table[1]

\* ------------------------------------------------------------------------ C4
\* C4 as stated: after the loader has returned the table is never empty.
C4_NeverEmptyAfterLoad == StartupDone => table # <<>>

\* C4 as amended: after the startup load has returned, a missing file or a
\* parse exception leaves exactly one synthetic entry (sentinel name, 35.689,
\* 139.692), and the table is empty exactly when the file parsed and no row
\* survived.
C4_FallbackOrSurvivors ==
  StartupDone =>
    /\ (csv.file # "ok" \/ \E i \in 1..Len(csv.rows) :
           csv.rows[i].lat.kind = "text" \/ csv.rows[i].lon.kind = "text")
         => /\ Len(table) = 1
            /\ table[1].display_name = <<"load-error", "using Tokyo">>
            /\ table[1].latitude = 35689
            /\ table[1].longitude = 139692
    /\ table = <<>> <=>
         /\ csv.file = "ok"
         /\ \A i \in 1..Len(csv.rows) :
              /\ csv.rows[i].lat.kind # "text"
              /\ csv.rows[i].lon.kind # "text"
              /\ \/ csv.rows[i].pref = ""
                 \/ csv.rows[i].cap = ""
                 \/ csv.rows[i].lat.kind = "empty"
                 \/ csv.rows[i].lon.kind = "empty"
    /\ pc[0] = "fatal" <=> table = <<>>

\* The file holds rows, every one of them is dropped, and the main thread
\* refuses to serve.
C4_Witness ==
  /\ pc[0] = "fatal"
  /\ csv.file = "ok"
  /\ Len(csv.rows) = 2
  /\ table = <<>>

\* ------------------------------------------------------------------------ C5
RatioInPercentRange(r) == 0 <= r.num /\ r.num <= 100 * r.den

\* C5 as stated: the ratio is in [0, 100] whenever the daylight hours are above
\* 0, and 0 whenever they are not; a day of no daylight, no sunshine and no
\* precipitation is CLOUDY.
C5_RatioAlwaysInRange ==
  out.result = "payload" =>
    \A i \in 1..Len(out.custom_analysis_table) :
      LET d == out.custom_analysis_table[i]
      IN /\ d.daylight > 0 => RatioInPercentRange(out.ratio[i])
         /\ d.daylight <= 0 => out.ratio[i].num = 0
         /\ (d.daylight = 0 /\ d.sunshine = 0 /\ d.precip = 0) => d.label = "CLOUDY"

\* C5 as amended: the ratio is 100 * sunshine / daylight of the rounded hours
\* whenever the daylight hours are above 0, so it is in [0, 100] when also
\* 0 <= sunshine <= daylight; it is 0 whenever the daylight hours are not above
\* 0; a day of no daylight, no sunshine and no precipitation is CLOUDY.
C5_RatioInRangeForSunWithinDaylight ==
  out.result = "payload" =>
    \A i \in 1..Len(out.custom_analysis_table) :
      LET d == out.custom_analysis_table[i]
          r == out.ratio[i]
      IN /\ d.daylight > 0 => r.num * d.daylight = 100 * d.sunshine * r.den
         /\ r.den > 0
         /\ (d.daylight > 0 /\ 0 <= d.sunshine /\ d.sunshine <= d.daylight)
              => RatioInPercentRange(r)
         /\ d.daylight <= 0 => r.num = 0
         /\ (d.daylight = 0 /\ d.sunshine = 0 /\ d.precip = 0) => d.label = "CLOUDY"

\* A day with negative daylight and positive sunshine (ratio 0) before a day
\* whose sunshine is within its daylight.
C5_Witness ==
  /\ out.result = "payload"
  /\ Len(out.custom_analysis_table) = 2
  /\ out.custom_analysis_table[1].daylight < 0
  /\ out.custom_analysis_table[1].sunshine > 0
  /\ out.ratio[1].num = 0
  /\ out.custom_analysis_table[2].daylight = 100
  /\ out.custom_analysis_table[2].sunshine = 90

\* ------------------------------------------------------------------------ C6
\* C6: no payload is returned in which a field holds the values of a provider
\* variable of another name: a reordered response ends in an error.
C6_ReorderedResponseFails ==
  out.result = "payload" => \A i \in 1..Len(DAILY) : out.from[i] = DAILY[i]

\* ------------------------------------------------------------------------ C7
\* The instants of the half-open range from start to end at the interval.
AxisCount(r) ==
  Cardinality({ k \in 0..(MaxEnd + 1) : r.start + k * r.interval < r.end })

Aligned(r) == \A v \in DailyVars : Len(r.series[v]) = AxisCount(r)

\* C7: a payload is returned exactly when each of the ten series has the length
\* of the half-open date axis; otherwise the call fails; a returned payload's
\* axis, tables and chart all have that length (0 included), nothing cut or
\* padded.
C7_AxisMatchesSeries ==
  out.result # "none" =>
    /\ out.result = "payload" <=> Aligned(resp)
    /\ out.result \in {"payload", "error"}
    /\ out.result = "payload" =>
         /\ Len(out.dates) = AxisCount(resp)
         /\ Len(out.daily_table) = AxisCount(resp)
         /\ Len(out.custom_analysis_table) = AxisCount(resp)
         /\ Len(out.chart.labels) = AxisCount(resp)
         /\ Len(out.chart.t_max) = AxisCount(resp)
         /\ Len(out.chart.t_min) = AxisCount(resp)
         /\ Len(out.chart.precipitation_sum) = AxisCount(resp)

\* One series is shorter than the axis and the call fails.
C7_Witness ==
  /\ out.result = "error"
  /\ AxisCount(resp) = 2
  /\ Len(resp.series["sunrise"]) = 1
  /\ \A v \in DailyVars \ {"sunrise"} : Len(resp.series[v]) = 2

\* ------------------------------------------------------------------------ C8
\* A row as the claim counts it valid: prefecture, capital and a parseable
\* latitude and longitude.
ClaimValid(row) ==
  /\ row.pref # ""
  /\ row.cap # ""
  /\ row.lat.kind \in {"num", "deg"}
  /\ row.lon.kind \in {"num", "deg"}

ValidRows(rows) == SelectSeq(rows, ClaimValid)

OneEntryPerValidRow(rows, tbl) ==
  /\ Len(tbl) = Len(ValidRows(rows))
  /\ \A i \in 1..Len(tbl) :
       LET r == ValidRows(rows)[i]
       IN /\ tbl[i].latitude = r.lat.v
          /\ tbl[i].longitude = r.lon.v
          /\ tbl[i].display_name[2] \in {r.cap, "Shinjuku-ku"}
          /\ tbl[i].region = (IF r.region = "" THEN "other" ELSE r.region)

\* C8 as stated: whatever rows lack (a prefecture, a capital, a parseable
\* latitude or longitude), the table holds one entry per valid row, in source
\* order.
C8_InvalidRowsDropped ==
  (StartupDone /\ csv.file = "ok") => OneEntryPerValidRow(csv.rows, table)

NoTextCell(rows) ==
  \A i \in 1..Len(rows) : rows[i].lat.kind # "text" /\ rows[i].lon.kind # "text"

\* C8 as amended: rows with an empty prefecture, capital, latitude or longitude
\* cell are dropped and the table holds one entry per other row, in source
\* order, a missing region replaced by the sentinel; a latitude or longitude
\* cell holding text that is no number drops no row: the table becomes the
\* single fallback entry.
C8_EmptyCellRowsDropped ==
  (StartupDone /\ csv.file = "ok") =>
    IF NoTextCell(csv.rows) THEN OneEntryPerValidRow(csv.rows, table)
    ELSE table = <<[display_name |-> <<"load-error", "using Tokyo">>,
                    latitude |-> 35689, longitude |-> 139692, region |-> "error"]>>

\* A row without latitude before a valid row without region: one entry, of the
\* sentinel region.
C8_Witness ==
  /\ pc[0] = "serving"
  /\ Len(csv.rows) = 2
  /\ csv.rows[1].lat.kind = "empty"
  /\ csv.rows[2].region = ""
  /\ Len(table) = 1
  /\ table[1].region = "other"

\* ------------------------------------------------------------------------ C9
\* C9: a step of a request leaves the table as it was, whatever the method and
\* the key and whether or not the fetch fails; the list the template gets is
\* the table's entries in latitude-descending order, and the first entry of
\* the table stays the first entry.
C9_RequestsLeaveTable ==
  [][\A t \in Threads :
       pc[t] # pc'[t] =>
         /\ table' = table
         /\ pc'[t] = "fetch" =>
              /\ IsPermutation(sorted_list'[t], table')
              /\ IsLatitudeDescending(sorted_list'[t])
              /\ default_data'[t] = table'[1]]_vars

\* A request whose fetch failed, on a table that is not in latitude order and
\* still holds the rows in the order of the file.
C9_Witness ==
  \E t \in Threads :
    /\ pc[t] = "respond"
    /\ status[t] = "fetch_error"
    /\ Len(table) = 2
    /\ table[1].latitude < table[2].latitude
    /\ table[1].latitude = csv.rows[1].lat.v
    /\ table[2].latitude = csv.rows[2].lat.v

\* ----------------------------------------------------------------------- C10
\* C10: whenever a request is about to read its default entry and the valid
\* keys, the table is the complete result of a load, and a POST whose key names
\* an entry of the fully loaded table is not given the default entry instead.
C10_NoPartialTable ==
  \A t \in Threads :
    /\ pc[t] = "resolve" => table = LoadResult(csv)
    /\ (pc[t] = "fetch" /\ meth[t] = "POST"
          /\ form_key[t] \in Names(LoadResult(csv)))
         => selected_data[t].display_name = form_key[t]

====
